---- MODULE Spec2Model ----
(***************************************************************************)
(* Connection and protocol layer of the nRF gate controller integration:   *)
(* GateControllerBLE (ble_client.py) driven by GateControllerCoordinator   *)
(* (coordinator.py), the config entry set-up/unload (__init__.py) and the  *)
(* cover entity (cover.py), over a BLE transport whose answers are         *)
(* nondeterministic.                                                       *)
(*                                                                         *)
(* asyncio is cooperative: the code between two awaits is one atomic step. *)
(* Every action below is one such stretch of code; an await is a change of *)
(* the task's position (mpc for the set-up/poll/unload flow, cpc for the   *)
(* cover service call).                                                    *)
(***************************************************************************)
EXTENDS Integers, FiniteSets, Sequences, TLC

\* ---- bounds of the model ----
MaxSessions == 2          \* BleakClient objects that can exist at once
MaxChunks == 3            \* pieces a notification payload is made of

\* ---- program constants ----
max_attempts_short == 10 - 1
max_attempts == 10        \* _wait_for_security_ready(max_attempts=10)
CMD_OPEN == 1
CMD_STOP_MIDDLE == 2
CMD_CLOSE == 3
CMD_SEND == 17
STATE_OPENED == 0
STATE_CLOSED == 4
WORKING_MODE_PP == 1
WORKING_MODE_SCA_MOTION == 6
CMD_WORKING_MODE_1 == 11
CMD_WORKING_MODE_2 == 12
CMD_WORKING_MODE_3 == 13
CMD_WORKING_MODE_4 == 14
CMD_WORKING_MODE_5 == 15
CMD_WORKING_MODE_6 == 16

NoneVal == -1             \* Python None inside a snapshot field
Absent == -2              \* a key the JSON object does not have
SessionIds == 1..MaxSessions
CoverCmds == {CMD_OPEN, CMD_STOP_MIDDLE, CMD_CLOSE}
GateStates == {STATE_OPENED, STATE_CLOSED}
Modes == {WORKING_MODE_PP}

VARIABLES
    phase,              \* life of the config entry: config (the config flow,
                        \* no entry yet), setup, running, failed, unloaded,
                        \* closed (disconnect() called once more)
    client,             \* self.client: 0 is None, else the id of a BleakClient
    _connected,         \* self._connected
    _state_callback,    \* self._state_callback is set
    sess,               \* the BleakClient objects: is_connected, notifying
    data,               \* coordinator.data, the latest snapshot
    mpc,                \* position of the set-up / poll / unload flow
    mop,                \* the operation that flow is running
    attempt,            \* loop variable of _wait_for_security_ready
    msess,              \* the client object a pending write of that flow uses
    mcmd,               \* the command code that write carries
    mret,               \* result of that flow's latest send_command
    mw,                 \* write_gatt_char calls made by that send_command
    cres,               \* result of the latest connect()
    pres,               \* how the latest poll cycle ended
    probes,             \* get_services calls made by the current connect()
    notifies,           \* start_notify calls made by the current connect()
    sawOk,              \* a probe of the current connect() found the characteristics
    unavail,            \* probes of the current connect() that did not find them
    lostInWait,         \* its session dropped during _wait_for_security_ready
    opened,             \* the transport connection of the current connect() opened
    nres,               \* outcome of start_notify in the current connect()
    overlap,            \* a cover send_command was in flight during the current connect()
    cpc,                \* position of the cover service call
    csess,              \* the client object its pending write uses
    ccmd,               \* the command code its pending write carries
    cret,               \* result of its send_command
    cw,                 \* write_gatt_char calls made by its send_command
    nlast,              \* the payload the step just taken handed to _notification_handler
    obs,                \* what that call of the handler passed to the observer
    nend,               \* how that call of the handler ended
    wop,                \* a named operation called on the handle by name
    warg,               \* its argument
    wwrites,            \* the payloads it handed to write_gatt_char
    latest,             \* the newest pair the handler has passed to the observer
    twice,              \* the last two steps before the poll cycle returned handed it different pairs
    escaped,            \* an exception left connect(), send_command() or disconnect()
    hass,               \* self.hass is set: the handle was constructed with hass
    vin,                \* the data of the latest validate_input call
    vres                \* how that call ended: the record it returned or the error it raised

vars == <<phase, client, _connected, _state_callback, sess, data, mpc, mop,
          attempt, msess, mcmd, mret, mw, cres, pres, probes, notifies, sawOk,
          unavail, lostInWait, opened, nres, overlap, cpc, csess, ccmd, cret, cw,
          nlast, obs, nend, wop, warg, wwrites, latest, twice, escaped,
          hass, vin, vres>>

handleVars == <<client, _connected, _state_callback>>
mainSendVars == <<msess, mcmd, mret, mw>>
ghostVars == <<probes, notifies, sawOk, unavail, lostInWait, opened, nres, overlap>>
coverVars == <<cpc, csess, ccmd, cret, cw>>
wireVars == <<wop, warg, wwrites>>
validateVars == <<vin, vres>>

ConnectPcs == {"c_open", "c_resume", "c_settle", "c_probe", "c_delay", "c_notify"}
WaitPcs == {"c_resume", "c_settle", "c_probe", "c_delay"}

NewSession == [is_connected |-> FALSE, notifying |-> FALSE]
NoData == [present |-> FALSE, state |-> NoneVal, mode |-> NoneVal]
BlankData == [present |-> TRUE, state |-> NoneVal, mode |-> NoneVal]

\* _is_connected trusting the flag, without asking the transport
_is_connected_flag_only(cl, fl, ss) == cl # 0 /\ fl

\* GateControllerBLE._is_connected on the handle fields cl, fl over sessions ss
_is_connected(cl, fl, ss) ==
    IF cl = 0 \/ ~fl THEN FALSE ELSE ss[cl].is_connected

\* the is_connected property
is_connected == _is_connected(client, _connected, sess)

\* a disconnect() without its finally clause
Finally_skipped(cl, fl) == <<cl, fl>>

\* the finally clause of disconnect(): self._connected = False,
\* self.client = None; the new values of client and flag
Finally(cl, fl) == <<0, FALSE>>

\* the guard of disconnect(): if self.client and self._connected
DisconnectEnters(cl, fl) == cl # 0 /\ fl

\* the transport drops session s
Drop(ss, s) == [ss EXCEPT ![s] = [is_connected |-> FALSE, notifying |-> FALSE]]

\* a BleakClient id no live object uses
FreeIds ==
    {s \in SessionIds : /\ ~sess[s].is_connected
                        /\ ~(cpc = "w_await" /\ csess = s)}

Min(S) == CHOOSE x \in S : \A y \in S : x <= y

\* ---- the wire format ----
AllStates == STATE_OPENED..STATE_CLOSED
AllModes == WORKING_MODE_PP..WORKING_MODE_SCA_MOTION

\* A notification payload is a sequence of pieces: the sentinel character,
\* white space, one complete JSON document (an object with or without the
\* "state" and "mode" keys, a number, a list holding neither key name), text
\* that is no JSON, or bytes that are no UTF-8.
Chunk(k, st, md) == [kind |-> k, state |-> st, mode |-> md]
Star == Chunk("star", Absent, Absent)
Ws == Chunk("ws", Absent, Absent)
Junk == Chunk("junk", Absent, Absent)
BadUtf8 == Chunk("badutf8", Absent, Absent)
Num == Chunk("num", Absent, Absent)
List == Chunk("list", Absent, Absent)
Obj(st, md) == Chunk("obj", st, md)
JsonError == Chunk("error", Absent, Absent)
\* null, a string, and a string and a list that contain the two key names
\* (for a string or a list, a field other than Absent says that
\* `"state" in response`, or `"mode" in response`, is true)
Null == Chunk("null", Absent, Absent)
Str == Chunk("str", Absent, Absent)
KeyStr == Chunk("str", NoneVal, NoneVal)
KeyList == Chunk("list", NoneVal, NoneVal)
DocKinds == {"obj", "num", "list", "str", "null"}

\* data.decode("utf-8") succeeds
DecodesAsUtf8(p) == \A i \in 1..Len(p) : p[i].kind # "badutf8"

\* position of the first sentinel of p, or one past its end
FirstStar(p) ==
    IF \E i \in 1..Len(p) : p[i] = Star
    THEN CHOOSE i \in 1..Len(p) : p[i] = Star /\ \A j \in 1..(i - 1) : p[j] # Star
    ELSE Len(p) + 1

\* if "*" in message: message = message.split("*")[0]
Truncate(p) == SubSeq(p, 1, FirstStar(p) - 1)

NotWs(c) == c.kind # "ws"

\* a parser that stops after the first document and ignores what follows it
Loads_lenient(msg) ==
    LET t == SelectSeq(msg, NotWs)
    IN  IF Len(t) >= 1 /\ t[1].kind \in DocKinds THEN t[1] ELSE JsonError

\* json.loads(message): one document with white space around it, or an error
Loads(msg) ==
    LET t == SelectSeq(msg, NotWs)
    IN  IF Len(t) = 1 /\ t[1].kind \in DocKinds THEN t[1] ELSE JsonError

\* testing one key only
HasKeys_state_only(r) == r.state # Absent

\* "state" in response and "mode" in response
HasKeys(r) == r.state # Absent /\ r.mode # Absent

\* the exception the body of _notification_handler raises when the text
\* decodes (utf8) and parses to r
Raised(utf8, r) ==
    CASE ~utf8 -> "UnicodeDecodeError"
      [] r = JsonError -> "JSONDecodeError"
      [] r.kind \in {"num", "null"} -> "TypeError"
      [] r.kind \in {"str", "list"} /\ HasKeys(r) -> "TypeError"
      [] OTHER -> "none"

\* except json.JSONDecodeError
InnerCatches(e) == e = "JSONDecodeError"

\* the exceptions the handler can meet: those of its own body and whatever
\* the observer raises
HandlerErrors ==
    {"UnicodeDecodeError", "JSONDecodeError", "TypeError", "ObserverError"}

\* a handler whose outer clause is `except ValueError`
OuterCatches_value_errors(e) == e \in {"UnicodeDecodeError", "JSONDecodeError"}

\* except Exception
OuterCatches(e) == e \in HandlerErrors

\* how _notification_handler ends on payload p
HandlerOutcome(p) ==
    LET r == Loads(Truncate(p))
        e == Raised(DecodesAsUtf8(p), r)
    IN  CASE e # "none" /\ InnerCatches(e) -> "json_error"
          [] e # "none" /\ ~InnerCatches(e) /\ OuterCatches(e) -> "error"
          [] e # "none" /\ ~InnerCatches(e) /\ ~OuterCatches(e) -> "raised"
          [] OTHER -> IF r.kind = "obj" /\ HasKeys(r) THEN "pair" ELSE "no_keys"

\* reading the two fields the wrong way round
Decoded_swapped(p) ==
    LET r == Loads(Truncate(p))
    IN  IF DecodesAsUtf8(p) /\ r.kind = "obj" /\ HasKeys(r)
        THEN [present |-> TRUE, state |-> r.mode, mode |-> r.state]
        ELSE NoData

\* the pair _notification_handler reads from payload p, if it gets that far:
\* state = response["state"]; mode = response["mode"]
Decoded(p) ==
    LET r == Loads(Truncate(p))
    IN  IF DecodesAsUtf8(p) /\ r.kind = "obj" /\ HasKeys(r)
        THEN [present |-> TRUE, state |-> r.state, mode |-> r.mode]
        ELSE NoData

\* what the observer does when it is called
ObserverOutcomes == {"returns", "raises"}

\* how _notification_handler ends on payload p when an observer that behaves
\* as ob is registered (cb) or none is
HandlerEnd(cb, p, ob) ==
    LET h == HandlerOutcome(p)
    IN  IF cb /\ ob = "raises" /\ h = "pair"
        THEN IF OuterCatches("ObserverError") THEN "error" ELSE "raised"
        ELSE h

\* a handler that never calls the observer
ObserverCall_none(cb, p) == NoData

\* what the handler passes to the observer: nothing unless one is registered
ObserverCall(cb, p) == IF cb THEN Decoded(p) ELSE NoData

\* the snapshot after the observer was passed o, or was not called (NoData),
\* when it was d before: _state_update_callback stores the pair through
\* async_set_updated_data
_state_update_callback(o, d) == IF o # NoData THEN o ELSE d

\* the snapshot after _notification_handler ran on p
Handler(cb, d, p) == _state_update_callback(ObserverCall(cb, p), d)

\* the frame the device sends for a state report
StateFrame(st, md) == <<Obj(st, md), Star>>

DigitChar == <<"0", "1", "2", "3", "4", "5", "6", "7", "8", "9">>

RECURSIVE Decimal(_)
Decimal(n) ==
    IF n < 10 THEN <<DigitChar[n + 1]>>
    ELSE Decimal(n \div 10) \o <<DigitChar[(n % 10) + 1]>>

\* json.dumps({"cmd": command}) + "*\n", character by character
Encode(command) ==
    <<"{", "\"", "c", "m", "d", "\"", ":", " ">> \o Decimal(command)
        \o <<"}">> \o <<"*", "\n">>

\* the table of set_working_mode
mode_commands ==
    (1 :> CMD_WORKING_MODE_1) @@ (2 :> CMD_WORKING_MODE_2) @@
    (3 :> CMD_WORKING_MODE_3) @@ (4 :> CMD_WORKING_MODE_4) @@
    (5 :> CMD_WORKING_MODE_5) @@ (6 :> CMD_WORKING_MODE_6)


\* the step is no call of _notification_handler
NoNotification ==
    nlast' = <<>> /\ obs' = NoData /\ nend' = "none" /\ latest' = latest

\* the call of _notification_handler that hands pair o to the observer, or
\* nothing (NoData): the newest pair handed over, and whether it follows
\* straight on a different pair handed over in the delay of the poll cycle
Delivered(o) ==
    /\ latest' = IF o # NoData THEN o ELSE latest
    /\ twice' = (/\ mop = "poll" /\ mpc = "p_sleep"
                 /\ obs # NoData /\ o # NoData /\ o # obs)

\* ---- the input of the config flow: validate_input(hass, data) ----

\* str.upper() on the characters an address is written with
UpperCase ==
    ("a" :> "A") @@ ("b" :> "B") @@ ("c" :> "C") @@ ("d" :> "D") @@
    ("e" :> "E") @@ ("f" :> "F")

upper(s) ==
    [i \in DOMAIN s |-> IF s[i] \in DOMAIN UpperCase THEN UpperCase[s[i]] ELSE s[i]]

\* str.count(ch)
count(s, ch) == Cardinality({i \in DOMAIN s : s[i] = ch})

\* the address test of validate_input: it raises InvalidAddress unless this holds
WellFormed(address) == Len(address) = 17 /\ count(address, ":") = 5

LowerAddress ==
    <<"a", "a", ":", "b", "b", ":", "c", "c", ":", "d", "d", ":", "e", "e", ":",
      "f", "f">>
MixedAddress ==
    <<"A", "a", ":", "B", "b", ":", "C", "c", ":", "D", "d", ":", "E", "e", ":",
      "F", "f">>
DashAddress ==
    <<"a", "a", "-", "b", "b", "-", "c", "c", "-", "d", "d", "-", "e", "e", "-",
      "f", "f">>
ShortAddress ==
    <<"a", "a", ":", "b", "b", ":", "c", "c", ":", "d", "d", ":", "e", "e", ":",
      "f">>
Addresses == {LowerAddress, MixedAddress, DashAddress, ShortAddress}

\* data["name"]: the key is missing, holds None, or holds a name
NameAbsent == "<no key>"
NameNone == "<None>"
Names == {NameAbsent, NameNone, "Gate 1"}

\* data["working_mode"]: the key is missing, or holds a number
ModeInputs == {Absent} \cup ((WORKING_MODE_PP - 1)..(WORKING_MODE_SCA_MOTION + 1))

\* the device behind the address: the lookup finds it and client.connect()
\* would succeed, the lookup finds it and client.connect() would fail, the
\* lookup returns None, the lookup raises
Devices == {"reachable", "refuses", "missing", "raises"}

\* what async_ble_device_from_address does for that device
Lookup(d) == IF d \in {"reachable", "refuses"} THEN "found" ELSE d

\* dict.get(key, default)
Get(v, absent, default) == IF v = absent THEN default ELSE v

\* no call yet
NoInput == <<>>

\* how a call of validate_input ended: kind is "record" for the returned dict,
\* the name of the exception raised, "in_connect" while connect() is awaiting
\* the transport, "none" before any call
Result(kind, address, name, working_mode) ==
    [kind |-> kind, address |-> address, name |-> name,
     working_mode |-> working_mode]

\* an exception, or no result yet
Raise(kind) == [kind |-> kind]

NoResult == Raise("none")

Init ==
    /\ phase = "setup"
    /\ client = 0
    /\ _connected = FALSE
    /\ _state_callback = FALSE
    /\ sess = [s \in SessionIds |-> NewSession]
    /\ data = NoData
    /\ mpc = "idle"
    /\ mop = "none"
    /\ attempt = 0
    /\ msess = 0
    /\ mcmd = 0
    /\ mret = "none"
    /\ mw = 0
    /\ cres = "none"
    /\ pres = "none"
    /\ probes = 0
    /\ notifies = 0
    /\ sawOk = FALSE
    /\ unavail = 0
    /\ lostInWait = FALSE
    /\ opened = FALSE
    /\ nres = "none"
    /\ overlap = FALSE
    /\ cpc = "idle"
    /\ csess = 0
    /\ ccmd = 0
    /\ cret = "none"
    /\ cw = 0
    /\ nlast = <<>>
    /\ obs = NoData
    /\ nend = "none"
    /\ wop = "none"
    /\ warg = 0
    /\ wwrites = <<>>
    /\ latest = NoData
    /\ twice = FALSE
    /\ escaped = FALSE
    /\ hass = TRUE
    /\ vin = NoInput
    /\ vres = NoResult

\* ---------------------------------------------------------------------------
\* Operators for the stretches of code that several actions run through.
\* op is the operation the set-up/poll/unload flow is running; cl, fl, ss are
\* the values of self.client, self._connected and the sessions at that point.

\* send_command(command) called by the poll cycle (get_state), up to the
\* write_gatt_char await
MainSend(op, command, cl, fl, ss) ==
    /\ mop' = op
    /\ client' = cl
    /\ sess' = ss
    /\ IF ~_is_connected(cl, fl, ss)
       THEN /\ _connected' = FALSE
            /\ mret' = "fail"
            /\ mw' = 0
            /\ mpc' = "p_sleep"
            /\ UNCHANGED <<msess, mcmd>>
       ELSE /\ _connected' = fl
            /\ mret' = "pending"
            /\ mw' = 1
            /\ msess' = cl
            /\ mcmd' = command
            /\ mpc' = "w_await"

\* a poll cycle that calls get_state() without registering the observer
PollRegisterAndSend_unregistered(op, cl, fl, ss) ==
    /\ UNCHANGED _state_callback
    /\ MainSend(op, CMD_SEND, cl, fl, ss)

\* _async_update_data after the reconnect: register the observer, get_state()
PollRegisterAndSend(op, cl, fl, ss) ==
    /\ _state_callback' = TRUE
    /\ MainSend(op, CMD_SEND, cl, fl, ss)

\* connect() returns res to its caller
ConnectReturn(op, res, cl, fl, ss) ==
    /\ cres' = res
    /\ IF op = "poll"
       THEN PollRegisterAndSend(op, cl, fl, ss)
       ELSE /\ mop' = op
            /\ client' = cl
            /\ _connected' = fl
            /\ sess' = ss
            /\ mpc' = "ret"
            /\ mret' = "none"
            /\ mw' = 0
            /\ UNCHANGED <<_state_callback, msess, mcmd>>

\* connect() going on to start_notify without the connection checks
AfterWait_unchecked(cl, fl, ss) ==
    /\ client' = cl
    /\ _connected' = fl
    /\ sess' = ss
    /\ mpc' = "c_notify"
    /\ notifies' = notifies + 1
    /\ UNCHANGED <<cres, mop, _state_callback, msess, mcmd, mret, mw>>

\* connect() from the return of _wait_for_security_ready to the start_notify
\* await
AfterWait(cl, fl, ss) ==
    IF ~_is_connected(cl, fl, ss)
    THEN /\ ConnectReturn(mop, "fail", cl, FALSE, ss)
         /\ UNCHANGED notifies
    ELSE /\ client' = cl
         /\ _connected' = fl
         /\ sess' = ss
         /\ mpc' = "c_notify"
         /\ notifies' = notifies + 1
         /\ UNCHANGED <<cres, mop, _state_callback, msess, mcmd, mret, mw>>

\* disconnect() returns
DisconnectReturn(op, cl, fl, ss) ==
    IF op = "disconnect"
    THEN /\ mop' = op
         /\ client' = cl
         /\ _connected' = fl
         /\ sess' = ss
         /\ mpc' = "ret"
         /\ UNCHANGED <<cres, _state_callback, msess, mcmd, mret, mw>>
    ELSE ConnectReturn(op, "fail", cl, fl, ss)

\* disconnect() up to its first await
DisconnectBegin(op, cl, fl, ss) ==
    IF DisconnectEnters(cl, fl)
    THEN IF ss[cl].is_connected
         THEN /\ mop' = op
              /\ client' = cl
              /\ _connected' = fl
              /\ sess' = ss
              /\ mpc' = "d_stop"
              /\ UNCHANGED <<cres, _state_callback, msess, mcmd, mret, mw>>
         ELSE DisconnectReturn(op, Finally(cl, fl)[1], Finally(cl, fl)[2], ss)
    ELSE DisconnectReturn(op, cl, fl, ss)

\* the transport steps connect(), send_command() and disconnect() make
TransportSteps ==
    {"lookup", "connect", "probe", "start_notify", "write", "stop_notify",
     "disconnect"}

\* a send_command without its except clause
Catches_not_write(site) == site \in TransportSteps \ {"write"}

\* the step sits in a try block whose except Exception clause returns: the
\* outer try of connect() for the lookup and client.connect(), the try of the
\* probe loop, the try around start_notify, the try of send_command, and the
\* inner and outer try of disconnect()
Catches(site) == site \in TransportSteps

\* the step at site has raised, or not
Fault(site, raised) == escaped' = (escaped \/ (raised /\ ~Catches(site)))

\* a connect() that goes on whatever the lookup gave
DeviceKnown_always(found) == TRUE

\* async_ble_device_from_address returned a device: not None, and no exception
DeviceKnown(found) == found = "found"

\* connect() up to the client.connect() await; a handle without hass returns
\* False before the lookup
ConnectBegin(op, found) ==
    /\ DeviceKnown(found) => FreeIds # {}
    /\ probes' = 0
    /\ notifies' = 0
    /\ sawOk' = FALSE
    /\ unavail' = 0
    /\ lostInWait' = FALSE
    /\ opened' = FALSE
    /\ nres' = "none"
    /\ overlap' = (cpc \in {"w_await", "w_sleep"})
    /\ attempt' = 0
    /\ Fault("lookup", hass /\ found = "raises")
    /\ IF hass /\ DeviceKnown(found)
       THEN /\ mop' = op
            /\ client' = Min(FreeIds)
            /\ sess' = [sess EXCEPT ![Min(FreeIds)] = NewSession]
            /\ mpc' = "c_open"
            /\ cres' = "none"
            /\ mret' = "none"
            /\ mw' = 0
            /\ UNCHANGED <<_connected, _state_callback, msess, mcmd>>
       ELSE ConnectReturn(op, "fail", client,
                          IF hass /\ found = "raises" THEN FALSE ELSE _connected,
                          sess)

\* ---------------------------------------------------------------------------
\* The set-up / poll / unload flow.

\* async_setup_entry: connected = await ble_client.connect()
SetupConnect(found) ==
    /\ mpc = "idle"
    /\ phase = "setup"
    /\ UNCHANGED phase
    /\ NoNotification
    /\ twice' = FALSE
    /\ UNCHANGED wireVars
    /\ pres' = "none"
    /\ ConnectBegin("connect", found)
    /\ UNCHANGED <<hass, validateVars>>
    /\ UNCHANGED <<data, coverVars>>

\* _async_update_data up to its first await
PollStart(found) ==
    /\ mpc = "idle"
    /\ phase = "running"
    /\ UNCHANGED phase
    /\ NoNotification
    /\ twice' = FALSE
    /\ UNCHANGED wireVars
    /\ pres' = "none"
    /\ IF ~is_connected
       THEN ConnectBegin("poll", found)
       ELSE /\ cres' = "none"
            /\ PollRegisterAndSend("poll", client, _connected, sess)
            /\ UNCHANGED <<attempt, ghostVars, escaped>>
    /\ UNCHANGED <<data, coverVars, hass, validateVars>>

\* the transport completes client.connect()
ClientConnectOk ==
    /\ mpc = "c_open"
    /\ UNCHANGED phase
    /\ NoNotification
    /\ twice' = FALSE
    /\ UNCHANGED <<escaped, hass, validateVars>>
    /\ UNCHANGED wireVars
    /\ sess' = [sess EXCEPT ![client].is_connected = TRUE]
    /\ mpc' = "c_resume"
    /\ opened' = TRUE
    /\ UNCHANGED <<handleVars, data, mop, attempt, mainSendVars,
                   cres, pres, probes, notifies, sawOk, unavail, lostInWait, nres,
                   overlap, coverVars>>

\* client.connect() raises: the except clause of connect()
ClientConnectFail ==
    /\ mpc = "c_open"
    /\ UNCHANGED phase
    /\ NoNotification
    /\ twice' = FALSE
    /\ Fault("connect", TRUE)
    /\ UNCHANGED <<hass, validateVars>>
    /\ UNCHANGED wireVars
    /\ ConnectReturn(mop, "fail", client, FALSE, sess)
    /\ UNCHANGED <<data, attempt, pres, ghostVars, coverVars>>

\* connect() resumes: self._connected = True, then _wait_for_security_ready
\* up to its settle sleep
ConnectResume ==
    /\ mpc = "c_resume"
    /\ UNCHANGED phase
    /\ NoNotification
    /\ twice' = FALSE
    /\ UNCHANGED <<escaped, hass, validateVars>>
    /\ UNCHANGED wireVars
    /\ IF ~_is_connected(client, TRUE, sess)
       THEN ConnectReturn(mop, "fail", client, FALSE, sess)
       ELSE /\ _connected' = TRUE
            /\ mpc' = "c_settle"
            /\ UNCHANGED <<client, _state_callback, sess, mop,
                           mainSendVars, cres>>
    /\ UNCHANGED <<data, attempt, pres, ghostVars, coverVars>>

\* one pass of the probe loop from its top to the get_services await
SecurityProbe ==
    /\ mpc \in {"c_settle", "c_delay"}
    /\ UNCHANGED phase
    /\ NoNotification
    /\ twice' = FALSE
    /\ UNCHANGED <<escaped, hass, validateVars>>
    /\ UNCHANGED wireVars
    /\ IF ~is_connected
       THEN /\ AfterWait(client, FALSE, sess)
            /\ UNCHANGED probes
       ELSE /\ mpc' = "c_probe"
            /\ probes' = probes + 1
            /\ UNCHANGED <<handleVars, sess, mop, mainSendVars, cres,
                           notifies>>
    /\ UNCHANGED <<data, attempt, pres, sawOk, unavail, lostInWait, opened, nres,
                   overlap, coverVars>>

\* a probe loop that never returns early
ProbeSucceeded_never(outcome) == FALSE

\* the probe found tx_char and rx_char: return True
ProbeSucceeded(outcome) == outcome = "ok"

\* the probe raised with "not connected" or "disconnected" in its message
ProbeLost(outcome) == outcome = "lost"

\* a probe loop that makes one pass more
LoopContinues_one_more(a) == a < max_attempts

\* for attempt in range(max_attempts): another pass follows pass a
LoopContinues(a) == a + 1 < max_attempts

\* get_services returns or raises; the rest of the pass
ProbeDone(outcome) ==
    /\ mpc = "c_probe"
    /\ UNCHANGED phase
    /\ NoNotification
    /\ twice' = FALSE
    /\ Fault("probe", outcome \in {"error", "lost"})
    /\ UNCHANGED <<hass, validateVars>>
    /\ UNCHANGED wireVars
    /\ sawOk' = (sawOk \/ outcome = "ok")
    /\ unavail' = IF outcome = "ok" THEN unavail ELSE unavail + 1
    /\ lostInWait' = (lostInWait \/ outcome = "lost")
    /\ IF ProbeSucceeded(outcome)
       THEN /\ AfterWait(client, _connected, sess)
            /\ UNCHANGED attempt
       ELSE IF ProbeLost(outcome)
       THEN /\ AfterWait(client, FALSE, Drop(sess, client))
            /\ UNCHANGED attempt
       ELSE IF LoopContinues(attempt)
       THEN /\ attempt' = attempt + 1
            /\ mpc' = "c_delay"
            /\ UNCHANGED <<handleVars, sess, mop, mainSendVars, cres, notifies>>
       ELSE /\ AfterWait(client, IF is_connected THEN _connected ELSE FALSE, sess)
            /\ UNCHANGED attempt
    /\ UNCHANGED <<data, pres, probes, opened, nres, overlap, coverVars>>

\* start_notify returns or raises
NotifyDone(outcome) ==
    /\ mpc = "c_notify"
    /\ UNCHANGED phase
    /\ NoNotification
    /\ twice' = FALSE
    /\ Fault("start_notify", outcome # "ok")
    /\ UNCHANGED <<hass, validateVars>>
    /\ UNCHANGED wireVars
    /\ nres' = outcome
    /\ CASE outcome = "ok" ->
              ConnectReturn(mop, "ok", client, _connected,
                            [sess EXCEPT ![client].notifying =
                                             sess[client].is_connected])
         [] outcome \in {"lost", "other"} ->
              LET ss == IF outcome = "lost" THEN Drop(sess, client) ELSE sess
              IN  DisconnectBegin(mop, client, FALSE, ss)
    /\ UNCHANGED <<data, attempt, pres, probes, notifies, sawOk, unavail,
                   lostInWait, opened, overlap, coverVars>>

\* async_unload_entry: await data["ble_client"].disconnect()
Unload ==
    /\ mpc = "idle"
    /\ phase = "running"
    /\ UNCHANGED phase
    /\ NoNotification
    /\ twice' = FALSE
    /\ UNCHANGED <<escaped, hass, validateVars>>
    /\ UNCHANGED wireVars
    /\ pres' = "none"
    /\ DisconnectBegin("disconnect", client, _connected, sess)
    /\ UNCHANGED <<data, attempt, ghostVars, coverVars>>

\* disconnect() called once more on the handle the unload has disconnected
DisconnectAgain ==
    /\ mpc = "idle"
    /\ phase = "unloaded"
    /\ UNCHANGED phase
    /\ NoNotification
    /\ twice' = FALSE
    /\ UNCHANGED <<escaped, hass, validateVars>>
    /\ UNCHANGED wireVars
    /\ pres' = "none"
    /\ DisconnectBegin("disconnect", client, _connected, sess)
    /\ UNCHANGED <<data, attempt, ghostVars, coverVars>>

\* stop_notify returns or raises; disconnect() up to the client.disconnect()
\* await
StopNotifyDone(outcome) ==
    /\ mpc = "d_stop"
    /\ UNCHANGED phase
    /\ NoNotification
    /\ twice' = FALSE
    /\ Fault("stop_notify", outcome = "raises")
    /\ UNCHANGED <<hass, validateVars>>
    /\ UNCHANGED wireVars
    /\ LET ss == IF outcome = "ok"
                 THEN [sess EXCEPT ![client].notifying = FALSE]
                 ELSE sess
       IN  IF ss[client].is_connected
           THEN /\ sess' = ss
                /\ mpc' = "d_disc"
                /\ UNCHANGED <<handleVars, mop, mainSendVars, cres>>
           ELSE DisconnectReturn(mop, Finally(client, _connected)[1],
                                Finally(client, _connected)[2], ss)
    /\ UNCHANGED <<data, attempt, pres, ghostVars, coverVars>>

\* client.disconnect() returns or raises; the finally clause of disconnect()
ClientDisconnectDone(outcome) ==
    /\ mpc = "d_disc"
    /\ UNCHANGED phase
    /\ NoNotification
    /\ twice' = FALSE
    /\ Fault("disconnect", outcome = "raises")
    /\ UNCHANGED <<hass, validateVars>>
    /\ UNCHANGED wireVars
    /\ DisconnectReturn(mop, Finally(client, _connected)[1],
                        Finally(client, _connected)[2],
                        IF outcome = "ok" THEN Drop(sess, client) ELSE sess)
    /\ UNCHANGED <<data, attempt, pres, ghostVars, coverVars>>

\* a send_command that takes no write failure for a lost connection
WriteLost_never(outcome) == FALSE

\* the except clause of send_command: the error text says "not connected" or
\* "disconnected", which is what the transport raises when the link is gone
WriteLost(outcome) == outcome = "lost"

\* write_gatt_char of get_state returns or raises
WriteDone(outcome) ==
    /\ mpc = "w_await"
    /\ UNCHANGED phase
    /\ NoNotification
    /\ twice' = FALSE
    /\ Fault("write", outcome # "ok")
    /\ UNCHANGED <<hass, validateVars>>
    /\ UNCHANGED wireVars
    /\ CASE outcome = "ok" ->
              /\ mpc' = "w_sleep"
              /\ UNCHANGED <<_connected, sess, mret>>
         [] outcome # "ok" ->
              /\ sess' = IF outcome = "lost" THEN Drop(sess, msess) ELSE sess
              /\ _connected' = IF WriteLost(outcome) THEN FALSE ELSE _connected
              /\ mret' = "fail"
              /\ mpc' = "p_sleep"
    /\ UNCHANGED <<client, _state_callback, data, mop, attempt, msess, mcmd,
                   mw, cres, pres, ghostVars, coverVars>>

\* the sleep of send_command ends: get_state returns {"status": "sent"}
SendSleepDone ==
    /\ mpc = "w_sleep"
    /\ UNCHANGED phase
    /\ NoNotification
    /\ twice' = FALSE
    /\ UNCHANGED <<escaped, hass, validateVars>>
    /\ UNCHANGED wireVars
    /\ mret' = "sent"
    /\ mpc' = "p_sleep"
    /\ UNCHANGED <<handleVars, sess, data, mop, attempt, msess, mcmd, mw,
                   cres, pres, ghostVars, coverVars>>

\* a poll cycle that blanks the snapshot whatever it was
PollResult_blank(d) == BlankData

\* return self.data or {"state": None, "mode": None}
PollResult(d) == IF d = NoData THEN BlankData ELSE d

\* the sleep of _async_update_data ends: return self.data or the blank record,
\* which the coordinator stores as its data
PollDone ==
    /\ mpc = "p_sleep"
    /\ UNCHANGED phase
    /\ NoNotification
    /\ UNCHANGED twice
    /\ UNCHANGED <<escaped, hass, validateVars>>
    /\ UNCHANGED wireVars
    /\ data' = PollResult(data)
    /\ pres' = "returned"
    /\ mpc' = "ret"
    /\ UNCHANGED <<handleVars, sess, mop, attempt, mainSendVars, cres,
                   ghostVars, coverVars>>

\* the caller of connect(), disconnect() or the poll cycle goes on:
\* async_setup_entry gives up unless connect() returned True,
\* async_unload_entry drops the handle, and async_step_working_mode shows its
\* form again after an error of validate_input
MainReturn ==
    /\ mpc = "ret"
    /\ NoNotification
    /\ twice' = FALSE
    /\ UNCHANGED <<escaped, hass, validateVars>>
    /\ UNCHANGED wireVars
    /\ phase' = CASE mop = "connect" -> IF cres = "ok" THEN "running" ELSE "failed"
                   [] mop = "disconnect" ->
                          IF phase = "running" THEN "unloaded" ELSE "closed"
                   [] OTHER -> phase
    /\ mpc' = "idle"
    /\ mop' = "none"
    /\ attempt' = 0
    /\ msess' = 0
    /\ mcmd' = 0
    /\ mret' = "none"
    /\ mw' = 0
    /\ cres' = "none"
    /\ pres' = "none"
    /\ probes' = 0
    /\ notifies' = 0
    /\ sawOk' = FALSE
    /\ unavail' = 0
    /\ lostInWait' = FALSE
    /\ opened' = FALSE
    /\ nres' = "none"
    /\ overlap' = FALSE
    /\ UNCHANGED <<handleVars, sess, data, coverVars>>

\* ---------------------------------------------------------------------------
\* The cover service call: open_gate / stop_gate / close_gate, then
\* async_request_refresh.

\* send_command(c) up to the write_gatt_char await
CoverCall(c) ==
    /\ cpc = "idle"
    /\ phase = "running"
    /\ mop # "disconnect"
    /\ UNCHANGED phase
    /\ NoNotification
    /\ twice' = FALSE
    /\ UNCHANGED <<escaped, hass, validateVars>>
    /\ UNCHANGED wireVars
    /\ overlap' = (overlap \/ mpc \in ConnectPcs)
    /\ IF ~is_connected
       THEN /\ _connected' = FALSE
            /\ cret' = "fail"
            /\ cw' = 0
            /\ cpc' = "refresh"
            /\ UNCHANGED <<csess, ccmd>>
       ELSE /\ cret' = "pending"
            /\ cw' = 1
            /\ csess' = client
            /\ ccmd' = c
            /\ cpc' = "w_await"
            /\ UNCHANGED _connected
    /\ UNCHANGED <<client, _state_callback, sess, data, mpc, mop, attempt,
                   mainSendVars, cres, pres, probes, notifies, sawOk, unavail,
                   lostInWait, opened, nres>>

\* write_gatt_char of the cover command returns or raises
CoverWriteDone(outcome) ==
    /\ cpc = "w_await"
    /\ UNCHANGED phase
    /\ NoNotification
    /\ twice' = FALSE
    /\ Fault("write", outcome # "ok")
    /\ UNCHANGED <<hass, validateVars>>
    /\ UNCHANGED wireVars
    /\ CASE outcome = "ok" ->
              /\ cpc' = "w_sleep"
              /\ UNCHANGED <<_connected, sess, cret, lostInWait>>
         [] outcome # "ok" ->
              /\ sess' = IF outcome = "lost" THEN Drop(sess, csess) ELSE sess
              /\ lostInWait' = (lostInWait \/ (outcome = "lost" /\ csess = client
                                                /\ mpc \in WaitPcs))
              /\ _connected' = IF WriteLost(outcome) THEN FALSE ELSE _connected
              /\ cret' = "fail"
              /\ cpc' = "refresh"
    /\ ccmd' = 0
    /\ UNCHANGED <<client, _state_callback, data, mpc, mop, attempt, mainSendVars,
                   cres, pres, probes, notifies, sawOk, unavail, opened, nres,
                   overlap, csess, cw>>

\* the sleep of send_command ends
CoverSleepDone ==
    /\ cpc = "w_sleep"
    /\ UNCHANGED phase
    /\ NoNotification
    /\ twice' = FALSE
    /\ UNCHANGED <<escaped, hass, validateVars>>
    /\ UNCHANGED wireVars
    /\ cret' = "sent"
    /\ cpc' = "refresh"
    /\ UNCHANGED <<handleVars, sess, data, mpc, mop, attempt,
                   mainSendVars, cres, pres, ghostVars, csess, ccmd, cw>>

\* coordinator.async_request_refresh(): the service call ends
CoverRefresh ==
    /\ cpc = "refresh"
    /\ UNCHANGED phase
    /\ NoNotification
    /\ twice' = FALSE
    /\ UNCHANGED <<escaped, hass, validateVars>>
    /\ UNCHANGED wireVars
    /\ cpc' = "idle"
    /\ csess' = 0
    /\ ccmd' = 0
    /\ cret' = "none"
    /\ cw' = 0
    /\ UNCHANGED <<handleVars, sess, data, mpc, mop, attempt, mainSendVars, cres,
                   pres, ghostVars>>

\* ---------------------------------------------------------------------------
\* The transport and the device.

\* the peripheral or the radio drops session s
TransportLoss(s) ==
    /\ sess[s].is_connected
    /\ UNCHANGED phase
    /\ NoNotification
    /\ twice' = FALSE
    /\ UNCHANGED <<escaped, hass, validateVars>>
    /\ UNCHANGED wireVars
    /\ sess' = Drop(sess, s)
    /\ lostInWait' = (lostInWait \/ (s = client /\ mpc \in WaitPcs))
    /\ UNCHANGED <<handleVars, data, mpc, mop, attempt, mainSendVars, cres, pres,
                   probes, notifies, sawOk, unavail, opened, nres, overlap,
                   coverVars>>

\* session s delivers {"state": st, "mode": md} to _notification_handler,
\* which hands it to _state_update_callback when that is registered
Notification(s, st, md) ==
    /\ sess[s].is_connected
    /\ UNCHANGED phase
    /\ UNCHANGED wireVars
    /\ sess[s].notifying
    /\ nlast' = StateFrame(st, md)
    /\ obs' = ObserverCall(_state_callback, nlast')
    /\ data' = _state_update_callback(obs', data)
    /\ nend' = HandlerEnd(_state_callback, nlast', "returns")
    /\ Delivered(obs')
    /\ UNCHANGED <<escaped, hass, validateVars>>
    /\ UNCHANGED <<handleVars, sess, mpc, mop, attempt, mainSendVars,
                   cres, pres, ghostVars, coverVars>>

Lookups == {"found", "missing", "raises"}
ProbeOutcomes == {"ok", "unavailable", "error", "lost"}
NotifyOutcomes == {"ok", "lost", "other"}
WriteOutcomes == {"ok", "lost", "rejected"}
CallOutcomes == {"ok", "raises"}

Next ==
    \/ \E f \in Lookups : SetupConnect(f)
    \/ \E f \in Lookups : PollStart(f)
    \/ ClientConnectOk
    \/ ClientConnectFail
    \/ ConnectResume
    \/ SecurityProbe
    \/ \E o \in ProbeOutcomes : ProbeDone(o)
    \/ \E o \in NotifyOutcomes : NotifyDone(o)
    \/ Unload
    \/ DisconnectAgain
    \/ \E o \in CallOutcomes : StopNotifyDone(o)
    \/ \E o \in CallOutcomes : ClientDisconnectDone(o)
    \/ \E o \in WriteOutcomes : WriteDone(o)
    \/ SendSleepDone
    \/ PollDone
    \/ MainReturn
    \/ \E c \in CoverCmds : CoverCall(c)
    \/ \E o \in WriteOutcomes : CoverWriteDone(o)
    \/ CoverSleepDone
    \/ CoverRefresh
    \/ \E s \in SessionIds : TransportLoss(s)
    \/ \E s \in SessionIds, st \in GateStates, md \in Modes : Notification(s, st, md)

Spec == Init /\ [][Next]_vars

\* the set-up/poll flow is inside connect(); the disconnect() of its clean-up
\* runs with the flag cleared and returns without an await
InConnect == mpc \in ConnectPcs

\* the steps that end an await of connect(): the transport answers a call, by
\* returning or by raising, and asyncio.sleep returns
ConnectStep ==
    \/ ClientConnectOk
    \/ ClientConnectFail
    \/ ConnectResume
    \/ SecurityProbe
    \/ \E o \in ProbeOutcomes : ProbeDone(o)
    \/ \E o \in NotifyOutcomes : NotifyDone(o)

\* the program without the notification deliveries: they write the
\* coordinator's snapshot, which connect() never reads
NextLive ==
    \/ \E f \in Lookups : SetupConnect(f)
    \/ \E f \in Lookups : PollStart(f)
    \/ ConnectStep
    \/ Unload
    \/ DisconnectAgain
    \/ \E o \in CallOutcomes : StopNotifyDone(o)
    \/ \E o \in CallOutcomes : ClientDisconnectDone(o)
    \/ \E o \in WriteOutcomes : WriteDone(o)
    \/ SendSleepDone
    \/ PollDone
    \/ MainReturn
    \/ \E c \in CoverCmds : CoverCall(c)
    \/ \E o \in WriteOutcomes : CoverWriteDone(o)
    \/ CoverSleepDone
    \/ CoverRefresh
    \/ \E s \in SessionIds : TransportLoss(s)

\* every await of connect() ends: the event loop resumes a task whose awaited
\* call has completed
SpecLive == Init /\ [][NextLive]_vars /\ WF_vars(ConnectStep)

\* ---------------------------------------------------------------------------
\* The named operations and the notification handler, one call at a time, on a
\* handle in the states the config entry leaves it in while it is loaded.

NamedOps == {"open_gate", "stop_gate", "close_gate", "get_state", "set_working_mode"}

\* the arguments set_working_mode is called with; the other operations take none
OpArgs(op) ==
    IF op = "set_working_mode" THEN 0..(WORKING_MODE_SCA_MOTION + 1) ELSE {0}

\* a table that numbers the modes from CMD_WORKING_MODE_1 + 1
ModeCommand_shifted(m) == mode_commands[m] + 1

\* mode_commands[working_mode]
ModeCommand(m) == mode_commands[m]

\* set_working_mode without the test of its argument
OpCommand_unchecked(op, m) ==
    CASE op = "get_state" -> 17
      [] op = "open_gate" -> 1
      [] op = "close_gate" -> 3
      [] op = "stop_gate" -> 2
      [] op = "set_working_mode" -> CMD_WORKING_MODE_1 + m - 1

\* the command a named operation passes to send_command; 0 when it returns
\* without calling it
OpCommand(op, m) ==
    CASE op = "get_state" -> 17
      [] op = "open_gate" -> 1
      [] op = "close_gate" -> 3
      [] op = "stop_gate" -> 2
      [] op = "set_working_mode" ->
             IF m \in DOMAIN mode_commands THEN ModeCommand(m) ELSE 0

\* the pieces the payloads of several pieces are made of
SmallChunks ==
    {Star, Ws, Junk, BadUtf8, Num, List,
     Obj(STATE_OPENED, WORKING_MODE_PP), Obj(STATE_CLOSED, Absent),
     Obj(Absent, WORKING_MODE_PP), Obj(Absent, Absent)}

\* every state report on its own and framed, and every payload of up to
\* MaxChunks pieces
Payloads ==
    UNION {[1..k -> SmallChunks] : k \in 1..MaxChunks}
        \cup {<<Obj(st, md)>> : st \in AllStates, md \in AllModes}
        \cup {StateFrame(st, md) : st \in AllStates, md \in AllModes}
        \cup {<<d>> : d \in {Null, Str, KeyStr, KeyList}}
        \cup {<<d, Star>> : d \in {Null, Str, KeyStr, KeyList}}

\* the snapshots a loaded entry holds between poll cycles, with whether the
\* callback is registered by then
WireSnapshots ==
    {<<FALSE, NoData>>, <<TRUE, BlankData>>}
        \cup {<<TRUE, [present |-> TRUE, state |-> st, mode |-> md]>> :
                  st \in GateStates, md \in Modes}

\* the handle is Ready, or its session is lost, or send_command has seen that
\* and cleared the flag
WireHandles ==
    {<<TRUE, [is_connected |-> TRUE, notifying |-> TRUE]>>,
     <<TRUE, NewSession>>, <<FALSE, NewSession>>}

InitWire ==
    /\ phase = "running"
    /\ client = 1
    /\ \E h \in WireHandles, d \in WireSnapshots :
         /\ h[1] \/ d[1]
         /\ _connected = h[1]
         /\ sess = [s \in SessionIds |-> IF s = 1 THEN h[2] ELSE NewSession]
         /\ _state_callback = d[1]
         /\ data = d[2]
    /\ mpc = "idle"
    /\ mop = "none"
    /\ attempt = 0
    /\ msess = 0
    /\ mcmd = 0
    /\ mret = "none"
    /\ mw = 0
    /\ cres = "none"
    /\ pres = "none"
    /\ probes = 0
    /\ notifies = 0
    /\ sawOk = FALSE
    /\ unavail = 0
    /\ lostInWait = FALSE
    /\ opened = FALSE
    /\ nres = "none"
    /\ overlap = FALSE
    /\ cpc = "idle"
    /\ csess = 0
    /\ ccmd = 0
    /\ cret = "none"
    /\ cw = 0
    /\ nlast = <<>>
    /\ obs = NoData
    /\ nend = "none"
    /\ wop = "none"
    /\ warg = 0
    /\ wwrites = <<>>
    /\ latest = NoData
    /\ twice = FALSE
    /\ escaped = FALSE
    /\ hass = TRUE
    /\ vin = NoInput
    /\ vres = NoResult

\* a named operation is called and runs to its first await or to its return
WireCall(op, m) ==
    /\ cpc = "idle"
    /\ wop = "none"
    /\ nlast = <<>>
    /\ NoNotification
    /\ twice' = FALSE
    /\ UNCHANGED <<escaped, hass, validateVars>>
    /\ wop' = op
    /\ warg' = m
    /\ IF OpCommand(op, m) = 0
       THEN /\ cret' = "fail"
            /\ cw' = 0
            /\ wwrites' = <<>>
            /\ cpc' = "refresh"
            /\ UNCHANGED <<_connected, csess, ccmd>>
       ELSE IF ~is_connected
       THEN /\ _connected' = FALSE
            /\ cret' = "fail"
            /\ cw' = 0
            /\ wwrites' = <<>>
            /\ cpc' = "refresh"
            /\ UNCHANGED <<csess, ccmd>>
       ELSE /\ cret' = "pending"
            /\ cw' = 1
            /\ wwrites' = <<Encode(OpCommand(op, m))>>
            /\ csess' = client
            /\ ccmd' = OpCommand(op, m)
            /\ cpc' = "w_await"
            /\ UNCHANGED _connected
    /\ UNCHANGED <<phase, client, _state_callback, sess, data, mpc, mop, attempt,
                   mainSendVars, cres, pres, ghostVars>>

\* the caller of the named operation has its result and goes on
WireReturn ==
    /\ cpc = "refresh"
    /\ wop # "none"
    /\ NoNotification
    /\ twice' = FALSE
    /\ UNCHANGED <<escaped, hass, validateVars>>
    /\ cpc' = "idle"
    /\ csess' = 0
    /\ ccmd' = 0
    /\ cret' = "none"
    /\ cw' = 0
    /\ wop' = "none"
    /\ warg' = 0
    /\ wwrites' = <<>>
    /\ UNCHANGED <<phase, handleVars, sess, data, mpc, mop, attempt, mainSendVars,
                   cres, pres, ghostVars>>

\* session s hands payload p to _notification_handler; the observer, if the
\* handler calls it, stores the pair and returns, or raises
WireNotify(s, p, ob) ==
    /\ cpc = "idle"
    /\ nlast = <<>>
    /\ sess[s].is_connected
    /\ sess[s].notifying
    /\ nlast' = p
    /\ obs' = ObserverCall(_state_callback, p)
    /\ data' = IF ob = "raises" THEN data ELSE Handler(_state_callback, data, p)
    /\ nend' = HandlerEnd(_state_callback, p, ob)
    /\ Delivered(IF ob = "raises" THEN NoData ELSE obs')
    /\ UNCHANGED <<escaped, hass, validateVars>>
    /\ UNCHANGED <<phase, handleVars, sess, mpc, mop, attempt, mainSendVars,
                   cres, pres, ghostVars, coverVars, wireVars>>

\* _notification_handler has returned to the transport
WireHandled ==
    /\ nlast # <<>>
    /\ NoNotification
    /\ twice' = FALSE
    /\ UNCHANGED <<escaped, hass, validateVars>>
    /\ UNCHANGED <<phase, handleVars, sess, data, mpc, mop, attempt, mainSendVars,
                   cres, pres, ghostVars, coverVars, wireVars>>

NextWire ==
    \/ \E op \in NamedOps : \E m \in OpArgs(op) : WireCall(op, m)
    \/ \E o \in WriteOutcomes : CoverWriteDone(o)
    \/ CoverSleepDone
    \/ WireReturn
    \/ \E s \in SessionIds : TransportLoss(s)
    \/ /\ nlast = <<>>
       /\ \E s \in SessionIds : \E p \in Payloads :
             \E ob \in ObserverOutcomes : WireNotify(s, p, ob)
    \/ WireHandled

SpecWire == InitWire /\ [][NextWire]_vars

\* ===========================================================================
\* Properties.

\* the handle is not connected, read off the state rather than through the
\* handle's own check: no session reference, the flag cleared, or the
\* transport reporting not connected
NotConnectedState ==
    \/ client = 0
    \/ ~_connected
    \/ ~sess[client].is_connected

\* a step in which connect() returns to its caller
ConnectReturned ==
    /\ mpc \in ConnectPcs \/ (mpc = "idle" /\ mop' \in {"connect", "poll"})
    /\ mpc' \notin ConnectPcs \union {"d_stop", "d_disc"}
    /\ cres' # "none"

\* a step in which the cover task calls send_command
CoverSendCalled == cpc = "idle" /\ cpc' # "idle"

\* a step in which the poll cycle calls get_state
PollSendCalled ==
    /\ mpc \in ConnectPcs \union {"idle", "d_stop", "d_disc"}
    /\ mop' = "poll"
    /\ mpc' \in {"w_await", "p_sleep"}

\* C1: send_command on a handle that is not connected (no session reference,
\* flag cleared, or transport not connected) returns the failure value and
\* makes no write_gatt_char call, for the cover commands and for get_state.
C1_SendNotConnected ==
    [][ /\ (CoverSendCalled /\ NotConnectedState)
            => (cret' = "fail" /\ cw' = 0 /\ cpc' = "refresh" /\ sess' = sess)
        /\ (PollSendCalled /\ NotConnectedState')
            => (mret' = "fail" /\ mw' = 0 /\ mpc' = "p_sleep")
      ]_vars

\* a cover command was refused on a session the transport had dropped while
\* the flag was still set, and get_state was refused after a failed reconnect
C1_Witness ==
    /\ cpc = "refresh" /\ cret = "fail" /\ cw = 0
    /\ client # 0 /\ ~sess[client].is_connected
    /\ mop = "poll" /\ mpc = "p_sleep" /\ mret = "fail" /\ cres = "fail"

\* C2 (as claimed): when start_notify fails, connect() returns failure with
\* the session it opened closed, no session reference held, and the handle
\* not connected.
C2_SubscribeFailTearsDown ==
    [][ (mpc = "c_notify" /\ nres' \in {"lost", "other"})
            => /\ cres' = "fail"
               /\ ~sess'[client].is_connected
               /\ client' = 0
               /\ NotConnectedState'
      ]_vars

\* C3 (as claimed): after disconnect() returns the handle is not connected
\* and holds no session reference.
C3_DisconnectReleases ==
    [][ (mpc # "ret" /\ mpc' = "ret" /\ mop' = "disconnect")
            => (client' = 0 /\ ~_connected')
      ]_vars

\* C4 (as claimed): at most one session created by the handle is connected.
C4_OneLiveSession ==
    Cardinality({s \in SessionIds : sess[s].is_connected}) <= 1

\* the premise of C5 and C6 at the return of connect(): the transport
\* connection opened and is still up, start_notify did not fail, and no cover
\* command ran on the handle during the attempt
CooperativeAttempt ==
    /\ opened'
    /\ client' # 0 /\ sess'[client'].is_connected
    /\ nres' \notin {"lost", "other"}
    /\ ~overlap'

\* C5: a connect() whose transport stays up and whose probes never find the
\* characteristics returns True with the handle connected, after exactly
\* max_attempts = 10 probes and exactly one start_notify call.
C5_SoftTimeout ==
    [][ (ConnectReturned /\ CooperativeAttempt /\ ~sawOk')
            => /\ cres' = "ok"
               /\ probes' = 10 /\ unavail' = 10
               /\ notifies' = 1
               /\ ~NotConnectedState'
      ]_vars

C5_Witness ==
    /\ mpc = "ret" /\ mop = "connect" /\ cres = "ok"
    /\ ~sawOk /\ probes = 10 /\ notifies = 1 /\ ~overlap
    /\ ~NotConnectedState

\* C6: a connect() whose transport stays up and whose first N < 10 probes do
\* not find the characteristics and whose next one does returns True after
\* exactly N + 1 probes and exactly one start_notify call.
C6_StopsAtFirstSuccess ==
    [][ (ConnectReturned /\ CooperativeAttempt /\ sawOk')
            => /\ cres' = "ok"
               /\ unavail' < 10
               /\ probes' = unavail' + 1
               /\ notifies' = 1
               /\ ~NotConnectedState'
      ]_vars

C6_Witness ==
    /\ mpc = "ret" /\ mop = "connect" /\ cres = "ok"
    /\ sawOk /\ unavail = 3 /\ probes = 4 /\ notifies = 1 /\ ~overlap
    /\ ~NotConnectedState

\* C7: a connect() whose session drops during _wait_for_security_ready
\* (before the settle sleep, between probes, inside a probe, after the last
\* probe) returns failure, never calls start_notify, and leaves the handle
\* not connected.
C7_LossDuringWait ==
    [][ /\ (ConnectReturned /\ lostInWait')
            => (cres' = "fail" /\ notifies' = 0 /\ NotConnectedState')
        /\ (mpc' = "c_notify") => ~lostInWait'
      ]_vars

C7_Witness ==
    /\ mpc = "ret" /\ mop = "connect" /\ cres = "fail"
    /\ lostInWait /\ probes = 10 /\ unavail = 10 /\ notifies = 0

\* the transport drops the session of a connected, subscribed handle, and no
\* task of the integration takes part in the step
LossEvent ==
    /\ ~NotConnectedState
    /\ sess[client].notifying
    /\ ~sess'[client].is_connected
    /\ mpc' = mpc /\ cpc' = cpc

C9_RecheckAtCall ==
    [][ (mpc = "idle" /\ mop' = "poll")
            => ((mpc' = "w_await" /\ cres' = "none") <=> ~NotConnectedState)
      ]_vars

\* the poll cycle went to reconnect while the flag was still set
C9_Witness ==
    /\ mop = "poll" /\ mpc = "c_open" /\ _connected

\* C10 (as claimed): a poll cycle whose reconnect failed or whose get_state
\* could not be sent ends in UpdateFailed.
C10_PollFailureRaises ==
    (mpc = "ret" /\ mop = "poll" /\ (cres = "fail" \/ mret = "fail"))
        => pres = "UpdateFailed"

\* a step of the poll cycle: the cycle starts or moves on
PollFlowStep == mop' = "poll" /\ mpc' # mpc

\* C11: no step of a poll cycle alters a snapshot that was known before it, so
\* a cycle whose reconnect or get-state send failed, with no notification
\* arriving meanwhile, ends with the snapshot it started with
C11_FailedPollKeepsSnapshot ==
    [][(PollFlowStep /\ data # NoData) => data' = data]_vars

\* a failed cycle has ended and a snapshot with a state and a mode is on record
C11_Witness ==
    /\ mop = "poll"
    /\ pres = "returned"
    /\ cres = "fail" \/ mret = "fail"
    /\ data.state # NoneVal

\* the handle is Ready: connected, and connect() has subscribed its session
Ready == is_connected /\ sess[client].notifying

\* the step is a call of _notification_handler with a payload that holds a pair
PairDelivered == nlast' # <<>> /\ Decoded(nlast') # NoData

\* C12: every notification that decodes to a pair and is delivered while the
\* handle is Ready replaces the snapshot with that pair
C12_NotificationReplacesSnapshot ==
    [][(PairDelivered /\ Ready) => data' = Decoded(nlast')]_vars

\* the places where a poll cycle is suspended: inside connect(), in the write
\* or the delay of get_state, in the delay of _async_update_data
PollSuspended == mop = "poll" /\ mpc \in ConnectPcs \cup {"w_await", "w_sleep", "p_sleep"}

\* C13: a notification carrying a pair that arrives while a poll cycle is
\* suspended updates the snapshot to that pair and hands exactly that pair to
\* the registered observer
C13_NotificationDuringPoll ==
    [][(PairDelivered /\ PollSuspended)
          => (data' = Decoded(nlast') /\ obs' = Decoded(nlast'))]_vars

\* a pair has just been delivered during the delay of get_state and is the
\* snapshot
C13_Witness ==
    /\ nlast # <<>>
    /\ mop = "poll" /\ mpc = "w_sleep"
    /\ obs = Decoded(nlast)
    /\ data = obs /\ data.state # NoneVal

\* ---------------------------------------------------------------------------
\* The command table and the frames (specification SpecWire).

\* the digits of the code the command table gives a named operation
TableDigits(op, m) ==
    CASE op = "open_gate" -> <<"1">>
      [] op = "stop_gate" -> <<"2">>
      [] op = "close_gate" -> <<"3">>
      [] op = "get_state" -> <<"1", "7">>
      [] op = "set_working_mode" -> <<"1", DigitChar[m + 1]>>

\* {"cmd": <code>} followed by the sentinel and a newline
TableFrame(op, m) ==
    <<"{", "\"", "c", "m", "d", "\"", ":", " ">> \o TableDigits(op, m)
        \o <<"}", "*", "\n">>

\* C14: a named operation that succeeds has made exactly one write, and its
\* payload is the frame of the code the command table gives the operation:
\* open_gate 1, stop_gate 2, close_gate 3, get_state 17, set_working_mode(m)
\* 10 + m; while the write is pending it is that one write as well
C14_CommandTable ==
    (wop # "none" /\ (cret = "sent" \/ cpc \in {"w_await", "w_sleep"}))
        => (cw = 1 /\ wwrites = <<TableFrame(wop, warg)>>)

\* set_working_mode(6) has succeeded
C14_Witness ==
    wop = "set_working_mode" /\ warg = WORKING_MODE_SCA_MOTION /\ cret = "sent"

\* the step is a call of set_working_mode with a mode outside 1..6
InvalidModeCall ==
    wop = "none" /\ wop' = "set_working_mode" /\ warg' \notin AllModes

\* C15: set_working_mode with a mode outside 1..6 returns failure at once,
\* writes nothing and leaves the handle as it was, Ready or not
C15_InvalidModeNoIO ==
    [][InvalidModeCall
          => /\ cret' = "fail" /\ cpc' = "refresh"
             /\ cw' = 0 /\ wwrites' = <<>>
             /\ UNCHANGED <<client, _connected, sess>>]_vars

\* set_working_mode(7) has failed on a Ready handle
C15_Witness ==
    /\ wop = "set_working_mode" /\ warg = WORKING_MODE_SCA_MOTION + 1
    /\ cret = "fail" /\ wwrites = <<>>
    /\ Ready

\* ---------------------------------------------------------------------------
\* The notification handler as a decoder (specification SpecWire).

Snapshot(st, md) == [present |-> TRUE, state |-> st, mode |-> md]

\* C16: a frame holding the JSON object of a pair (state in 0..4, mode in
\* 1..6), with or without the sentinel after it, is decoded to exactly that
\* pair, which reaches the registered observer unchanged (and is the snapshot
\* once the observer has returned)
C16_DecodeRoundTrip ==
    \A st \in AllStates, md \in AllModes :
        (nlast \in {<<Obj(st, md)>>, <<Obj(st, md), Star>>} /\ _state_callback)
            => /\ obs = Snapshot(st, md)
               /\ nend = "pair" => data = Snapshot(st, md)

\* the frame of (closed, SCA motion) has just been handled
C16_Witness ==
    /\ nlast = <<Obj(STATE_CLOSED, WORKING_MODE_SCA_MOTION), Star>>
    /\ obs = Snapshot(STATE_CLOSED, WORKING_MODE_SCA_MOTION)

\* the pieces of p before its first sentinel
RECURSIVE UpToStar(_)
UpToStar(p) ==
    IF p = <<>> \/ Head(p) = Star THEN <<>>
    ELSE <<Head(p)>> \o UpToStar(Tail(p))

HasStar(p) == \E i \in 1..Len(p) : p[i] = Star

\* C17: a payload that contains the sentinel is handled exactly as the text
\* before its first sentinel would be, whatever follows that sentinel
C17_SentinelTruncates ==
    (nlast # <<>> /\ HasStar(nlast))
        => obs = ObserverCall(_state_callback, UpToStar(nlast))

\* white space aside, the text t is one JSON document
IsJson(t) ==
    \E i \in 1..Len(t) :
        /\ t[i].kind \in DocKinds
        /\ \A j \in 1..Len(t) : j # i => t[j] = Ws

\* the step is a call of the handler with payload nlast'
HandlerStep == nlast' # <<>>

\* C18: a notification whose text before the sentinel is no valid JSON gives
\* no state: the handler returns normally, calls no observer and leaves the
\* snapshot as it was
C18_InvalidJsonSwallowed ==
    [][(HandlerStep /\ ~IsJson(UpToStar(nlast')))
          => /\ obs' = NoData
             /\ data' = data
             /\ HandlerOutcome(nlast') \in {"json_error", "error"}]_vars

\* text that is no JSON has just been handled with an observer registered and
\* a snapshot on record
C18_Witness ==
    /\ nlast = <<Obj(STATE_OPENED, WORKING_MODE_PP), Junk, Star>>
    /\ _state_callback /\ data.state # NoneVal
    /\ obs = NoData

\* white space aside, the text of p before the sentinel is one JSON object
\* that lacks the state key or the mode key
MissingKeyObject(p) ==
    /\ \A i \in 1..Len(p) : p[i] # BadUtf8
    /\ \E i \in 1..Len(UpToStar(p)) :
         /\ UpToStar(p)[i].kind = "obj"
         /\ UpToStar(p)[i].state = Absent \/ UpToStar(p)[i].mode = Absent
         /\ \A j \in 1..Len(UpToStar(p)) : j # i => UpToStar(p)[j] = Ws

\* C19: a notification whose text is a JSON object without the state key or
\* without the mode key gives no state: no observer is called and the snapshot
\* is unchanged
C19_MissingKeyIgnored ==
    [][(HandlerStep /\ MissingKeyObject(nlast'))
          => (obs' = NoData /\ data' = data /\ HandlerOutcome(nlast') = "no_keys")]_vars

\* an object with a state and no mode has just been handled with an observer
\* registered
C19_Witness ==
    /\ nlast = <<Obj(STATE_CLOSED, Absent)>>
    /\ _state_callback /\ data.state # NoneVal
    /\ obs = NoData

\* ---------------------------------------------------------------------------
\* connect() for an address the Bluetooth cache does not know (specification
\* Spec).

\* the step is a connect() whose device lookup returns None, called by the
\* set-up or by a poll cycle that found the handle not connected
UnknownAddressConnect ==
    SetupConnect("missing") \/ (~is_connected /\ PollStart("missing"))

\* C20: connect() for an address the discovery cache does not know returns
\* failure at once: no transport connection is opened, nothing is probed or
\* subscribed, and the handle is not connected afterwards
C20_UnknownAddress ==
    [][UnknownAddressConnect
          => /\ cres' = "fail"
             /\ sess' = sess /\ client' = client /\ ~opened'
             /\ probes' = 0 /\ notifies' = 0
             /\ mpc' \notin ConnectPcs
             /\ ~_is_connected(client', _connected', sess')]_vars

\* the set-up's connect() has returned failure without creating a client
C20_Witness ==
    /\ mop = "connect" /\ mpc = "ret" /\ cres = "fail"
    /\ client = 0 /\ ~opened /\ probes = 0 /\ notifies = 0

\* ---------------------------------------------------------------------------
\* disconnect() twice (specification Spec).

\* the step is the second disconnect(), from its call to its first await or
\* its return
SecondDisconnect == phase = "unloaded" /\ mpc = "idle" /\ mop' = "disconnect"

\* C21: a second disconnect() after the first returns without awaiting
\* stop_notify or the transport's disconnect and leaves the handle and its
\* sessions as the first call left them
C21_DisconnectIdempotent ==
    [][SecondDisconnect
          => (mpc' = "ret" /\ UNCHANGED <<client, _connected, sess>>)]_vars

\* the second disconnect() has returned
C21_Witness ==
    phase = "unloaded" /\ mop = "disconnect" /\ mpc = "ret" /\ client = 0

\* C22: a write that fails because the link dropped makes send_command return
\* failure with the handle disconnected afterwards; a write that fails for
\* another cause makes it return failure with the flag, the client reference
\* and the sessions unchanged
C22_WriteFailureClassified ==
    [][/\ WriteDone("lost")
          => (mret' = "fail" /\ ~_connected'
              /\ ~_is_connected(client', _connected', sess'))
       /\ CoverWriteDone("lost")
          => (cret' = "fail" /\ ~_connected'
              /\ ~_is_connected(client', _connected', sess'))
       /\ WriteDone("rejected")
          => (mret' = "fail" /\ UNCHANGED <<client, _connected, sess>>)
       /\ CoverWriteDone("rejected")
          => (cret' = "fail" /\ UNCHANGED <<client, _connected, sess>>)]_vars

\* a cover command has failed on a lost link and the flag is down
C22_Witness ==
    cpc = "refresh" /\ cret = "fail" /\ cw = 1 /\ ~_connected /\ client # 0

\* C23: no exception leaves connect(), send_command() or disconnect(),
\* whichever transport step raised, and a connect() whose lookup, transport
\* connect or start_notify raised, or whose link dropped while it probed,
\* returns False
C23_NoFaultEscapes ==
    /\ ~escaped
    /\ (mop = "connect" /\ mpc = "ret"
          /\ (~opened \/ lostInWait \/ nres \in {"lost", "other"}))
       => cres = "fail"

\* connect() has returned False after start_notify raised and the clean-up
\* disconnect() ran
C23_Witness == mop = "connect" /\ mpc = "ret" /\ cres = "fail" /\ nres = "other"

\* C24: every connect() attempt ends, and no connect() attempt makes more
\* than max_attempts = 10 probes, whatever the transport answers
C24_ConnectTerminates ==
    /\ [](probes <= max_attempts)
    /\ InConnect ~> ~InConnect

\* a connect() has made its tenth probe, with the link dropping under it
C24_Witness == mpc = "c_probe" /\ probes = max_attempts /\ ~is_connected

\* the connect() attempt returns in this step, and the transport has been
\* cooperative all through it: the connection opened, the link stayed up, the
\* first probe found the characteristics and start_notify did not raise
CooperativeConnectReturns ==
    /\ InConnect /\ cres = "none" /\ cres' # "none"
    /\ opened' /\ ~lostInWait' /\ unavail' = 0 /\ nres' \notin {"lost", "other"}
    /\ sess'[client'].is_connected

\* a poll cycle starts on a handle that is not connected and finds the device
PollReconnects == PollStart("found") /\ ~is_connected

\* C25: a connect() against a cooperative transport ends with the handle
\* Ready, whatever failures came before it, and a poll cycle started while not
\* connected makes that connect attempt
C25_ConnectRecovers ==
    [][/\ CooperativeConnectReturns
          => (cres' = "ok" /\ _connected' /\ sess'[client'].notifying)
       /\ PollReconnects
          => (mop' = "poll" /\ mpc' = "c_open" /\ ~opened')]_vars

\* the snapshot holds no state: None, or the record of two None fields a poll
\* cycle returns when no notification has arrived yet
NoStateKnown == data \in {NoData, BlankData}

\* C26: the snapshot holds no state or the pair decoded from a notification
\* delivered earlier: it changes only by taking the pair of the notification
\* being delivered, or when a poll cycle that ends with no snapshot records
\* that no state is known
C26_NeverInventsState ==
    /\ [](NoStateKnown \/ (data.state \in GateStates /\ data.mode \in Modes))
    /\ [][data' # data
             => \/ PairDelivered /\ data' = Decoded(nlast')
                \/ /\ data = NoData /\ data' = BlankData
                   /\ mop = "poll" /\ pres' = "returned"]_vars

\* a poll cycle whose get_state was sent has returned and the snapshot is a
\* pair a notification brought
C26_Witness ==
    /\ mop = "poll" /\ pres = "returned" /\ mret = "sent"
    /\ data.state \in GateStates /\ data.mode \in Modes

\* a cover command calls send_command while the poll cycle's connect() is
\* suspended with its subscription not completed
SendDuringConnect ==
    /\ \E c \in CoverCmds : CoverCall(c)
    /\ mop = "poll" /\ mpc \in ConnectPcs

\* C27: a send_command issued while connect() is suspended before it has
\* subscribed fails without a transport write
C27_SendDuringConnectFails ==
    [][SendDuringConnect => (cw' = 0 /\ cret' = "fail")]_vars

\* the poll cycle is suspended inside connect() or get_state()
PollInDeviceOp == mop = "poll" /\ (InConnect \/ mpc \in {"w_await", "w_sleep"})

\* a cover command is suspended inside open_gate, stop_gate or close_gate
CoverInDeviceOp == cpc \in {"w_await", "w_sleep"}

\* C28: the poll cycle and a cover command are never both suspended inside a
\* device operation on the handle
C28_OneOperationInFlight == ~(PollInDeviceOp /\ CoverInDeviceOp)

\* C29: the snapshot is the pair of the newest notification handed to the
\* observer, at the end of a poll cycle as at any other time: a cycle that
\* returns stores the snapshot as it stands and never an older value
C29_PollKeepsLatest == latest # NoData => data = latest

\* two notifications with different pairs reached the observer during the
\* delay of a poll cycle, the cycle has returned, and the snapshot is the
\* second pair
C29_Witness ==
    mop = "poll" /\ pres = "returned" /\ twice /\ data = latest

\* the poll cycle starts
PollStarts == \E f \in Lookups : PollStart(f)

\* the poll cycle has called connect(): the attempt is under way or has
\* returned
ConnectCalled == mpc \in ConnectPcs \/ cres # "none"

\* the positions of the poll cycle from the call of get_state() on
SendPcs == {"w_await", "w_sleep", "p_sleep"}

\* the step in which the poll cycle calls get_state()
IssuesGetState == mop' = "poll" /\ mpc \notin SendPcs /\ mpc' \in SendPcs

\* the handle is Ready after the step
ReadyAfter ==
    /\ _is_connected(client', _connected', sess')
    /\ sess'[client'].notifying

\* C30: a poll cycle calls connect() if and only if is_connected was false
\* when it started; registers the observer in every cycle before get_state,
\* also after a failed reconnect; get_state writes one cmd-17 frame when the
\* handle is Ready and nothing otherwise; and the cycle returns only after its
\* delay, with the snapshot as it stands
C30_PollOrder ==
    [][/\ PollStarts => (~is_connected <=> ConnectCalled')
       /\ (mop' = "poll" /\ mpc' \in ConnectPcs)
          => (mw' = 0 /\ pres' = "none")
       /\ IssuesGetState
          => /\ _state_callback'
             /\ IF ReadyAfter
                THEN mw' = 1 /\ mcmd' = CMD_SEND /\ msess' = client'
                ELSE mw' = 0 /\ mpc' = "p_sleep"
       /\ (mop = "poll" /\ mpc \in SendPcs) => (_state_callback' /\ mw' = mw)
       /\ (mop = "poll" /\ pres' = "returned" /\ pres # "returned")
          => (mpc = "p_sleep" /\ data' = PollResult(data))]_vars

\* a cycle whose reconnect failed has registered the observer, written
\* nothing and returned
C30_Witness ==
    /\ mop = "poll" /\ pres = "returned" /\ cres = "fail"
    /\ _state_callback /\ mw = 0 /\ mret = "fail"

\* ---------------------------------------------------------------------------
\* The order of the steps of connect() (specification Spec).

\* the step completes client.connect(), makes a probe, calls start_notify,
\* makes connect() return True
OpensConnection == opened' /\ ~opened
MakesProbe == probes' = probes + 1
CallsStartNotify == notifies' = notifies + 1
ReturnsSuccess == cres' = "ok" /\ cres # "ok"

\* C31: within a connect() attempt the connection is opened after the lookup
\* and before any probe; probes are made only on the opened connection and
\* never after start_notify; start_notify is called at most once, at the end
\* of the wait, after a probe found the characteristics or after the tenth
\* probe; and connect() returns True only out of a start_notify that returned
C31_ConnectOrder ==
    [][/\ OpensConnection
          => (mpc = "c_open" /\ probes = 0 /\ notifies = 0)
       /\ MakesProbe
          => (opened /\ mpc \in {"c_settle", "c_delay"} /\ notifies = 0
              /\ probes < max_attempts)
       /\ CallsStartNotify
          => /\ opened /\ notifies = 0
             /\ mpc = "c_probe" /\ mpc' = "c_notify"
             /\ probes' = probes
             /\ sawOk' \/ unavail' = max_attempts
       /\ ReturnsSuccess
          => (mpc = "c_notify" /\ nres' = "ok" /\ opened /\ notifies' = 1)]_vars

\* connect() has returned True after three probes and one start_notify
C31_Witness ==
    /\ mop = "connect" /\ mpc = "ret" /\ cres = "ok"
    /\ opened /\ probes = 3 /\ sawOk /\ notifies = 1 /\ nres = "ok"

\* ---------------------------------------------------------------------------
\* The notification handler and what it absorbs (specification SpecWire).

\* the text of p is valid UTF-8 and, up to the sentinel and white space aside,
\* one JSON document that is no object: a number, a string, a list or null
NonObjectJson(p) ==
    /\ DecodesAsUtf8(p)
    /\ \E i \in 1..Len(UpToStar(p)) :
         /\ UpToStar(p)[i].kind \in {"num", "str", "list", "null"}
         /\ \A j \in 1..Len(UpToStar(p)) : j # i => UpToStar(p)[j] = Ws

\* C32: whatever the payload and whatever the observer does, the handler
\* returns to the transport without an exception; for bytes that are no UTF-8
\* and for JSON that is no object it calls no observer and leaves the snapshot
\* as it was
C32_HandlerAbsorbs ==
    [][HandlerStep
          => /\ nend' \in {"pair", "no_keys", "json_error", "error"}
             /\ (~DecodesAsUtf8(nlast') \/ NonObjectJson(nlast'))
                => /\ obs' = NoData
                   /\ data' = data
                   /\ nend' \in {"error", "no_keys"}]_vars

\* a list that holds both key names has just been handled with an observer
\* registered and a snapshot on record
C32_Witness ==
    /\ nlast = <<KeyList, Star>>
    /\ _state_callback /\ data.state # NoneVal
    /\ obs = NoData /\ nend = "error"

\* ---------------------------------------------------------------------------
\* The config flow: validate_input(hass, data), called by
\* async_step_working_mode before the entry exists. In phase "config" the
\* handle variables are the ble_client local to validate_input.

\* validate_input(hass, data) up to its first await that suspends, or to its
\* end when none does
ValidateInput(a, m, n, d) ==
    /\ phase = "config"
    /\ mpc = "idle"
    /\ UNCHANGED phase
    /\ NoNotification
    /\ twice' = FALSE
    /\ UNCHANGED wireVars
    /\ pres' = "none"
    /\ UNCHANGED <<data, coverVars, hass>>
    /\ vin' = [address |-> a, working_mode |-> m, name |-> n, device |-> d]
    /\ LET address == upper(a)
           working_mode == Get(m, Absent, WORKING_MODE_PP)
       IN  IF ~WellFormed(address) \/ working_mode \notin AllModes
           THEN /\ vres' = IF ~WellFormed(address)
                           THEN Raise("InvalidAddress")
                           ELSE Raise("InvalidWorkingMode")
                /\ UNCHANGED <<handleVars, sess, mpc, mop, attempt, mainSendVars,
                               cres, ghostVars, escaped>>
           ELSE /\ ConnectBegin("validate", Lookup(d))
                /\ vres' = IF mpc' = "ret" /\ cres' # "ok"
                           THEN Raise("CannotConnect")
                           ELSE Raise("in_connect")

\* the state when async_step_working_mode calls validate_input: no entry, and
\* the handle validate_input constructs, GateControllerBLE(address=, name=),
\* without hass
InitValidate ==
    /\ phase = "config"
    /\ hass = FALSE
    /\ client = 0
    /\ _connected = FALSE
    /\ _state_callback = FALSE
    /\ sess = [s \in SessionIds |-> NewSession]
    /\ data = NoData
    /\ mpc = "idle"
    /\ mop = "none"
    /\ attempt = 0
    /\ msess = 0
    /\ mcmd = 0
    /\ mret = "none"
    /\ mw = 0
    /\ cres = "none"
    /\ pres = "none"
    /\ probes = 0
    /\ notifies = 0
    /\ sawOk = FALSE
    /\ unavail = 0
    /\ lostInWait = FALSE
    /\ opened = FALSE
    /\ nres = "none"
    /\ overlap = FALSE
    /\ cpc = "idle"
    /\ csess = 0
    /\ ccmd = 0
    /\ cret = "none"
    /\ cw = 0
    /\ nlast = <<>>
    /\ obs = NoData
    /\ nend = "none"
    /\ wop = "none"
    /\ warg = 0
    /\ wwrites = <<>>
    /\ latest = NoData
    /\ twice = FALSE
    /\ escaped = FALSE
    /\ vin = NoInput
    /\ vres = NoResult

NextValidate ==
    \/ \E a \in Addresses, m \in ModeInputs, n \in Names, d \in Devices :
           ValidateInput(a, m, n, d)
    \/ MainReturn

SpecValidate == InitValidate /\ [][NextValidate]_vars

\* C33: a call of validate_input with a well-formed address, a working mode
\* in 1..6 and a device the transport can find and connect to has returned the
\* record of the upper-cased address, the name and the working mode, and a
\* call that raised CannotConnect was given a device that cannot be connected.
C33_ValidateInputConnects ==
    /\ (/\ vres.kind # "none"
        /\ WellFormed(vin.address)
        /\ vin.working_mode \in AllModes
        /\ vin.device = "reachable")
       => vres = Result("record", upper(vin.address),
                        Get(vin.name, NameAbsent, "Gate Controller"),
                        vin.working_mode)
    /\ vres.kind = "CannotConnect" => vin.device # "reachable"

====
